---------------------------- MODULE Spec2Model ----------------------------
(***************************************************************************)
(* Model of parser.py: RuntimeLogLine.parse_log_line, read_log_files and   *)
(* the __main__ block (sort, filter, print).                               *)
(*                                                                         *)
(* Python str values are TLA+ strings; TLC evaluates Len, \o and SubSeq on *)
(* them, so the character-level code (split, strip, startswith, indexing)  *)
(* is computed on the real text.  Python indexes from 0, TLA+ from 1:      *)
(* Python's line[2] is Char(line, 3) here.                                 *)
(***************************************************************************)
EXTENDS Integers, Sequences, FiniteSets, TLC

VARIABLES
    pc,            \* control position of the program being run
    src,           \* the fields the parser's input was assembled from
    log_line,      \* argument of parse_log_line                (line 35)
    result,        \* outcome of the parse_log_line call        (lines 36-44)
    file,          \* physical lines of the opened .log file    (line 62)
    pos,           \* number of lines consumed by "for line in file"
    log_entry,     \* accumulating stripped lines               (line 63)
    entry_lines,   \* history: the indices in file of the lines in log_entry
    log_contents,  \* result collection                         (line 59)
    flushed,       \* history: one record per RuntimeLogLine(...) call
    exc,           \* exception that left read_log_files, or "none"
    visited,       \* entries the print loop has gone through   (line 92)
    output         \* lines printed by __main__                 (line 94)

vars == <<pc, src, log_line, result, file, pos, log_entry, entry_lines,
          log_contents, flushed, exc, visited, output>>

(***************************************************************************)
(* Bounds of the model.                                                    *)
(***************************************************************************)
\* number of physical lines of the file that is read
MaxLines == 3
\* number of additional ";x" segments put into the 6th field of a parser input
MaxExtraSemis == 2

(***************************************************************************)
(* str primitives                                                          *)
(***************************************************************************)
Char(s, i) == SubSeq(s, i, i)

Digits == {"0", "1", "2", "3", "4", "5", "6", "7", "8", "9"}

\* str.isspace for the characters that occur in the inputs
Whitespace == {" ", "\t", "\n", "\r", "\f"}

RECURSIVE lstrip(_)
lstrip(s) ==
    IF Len(s) > 0 /\ Char(s, 1) \in Whitespace
    THEN lstrip(SubSeq(s, 2, Len(s)))
    ELSE s

RECURSIVE rstrip(_)
rstrip(s) ==
    IF Len(s) > 0 /\ Char(s, Len(s)) \in Whitespace
    THEN rstrip(SubSeq(s, 1, Len(s) - 1))
    ELSE s

\* str.strip()
strip(s) == rstrip(lstrip(s))

\* str.startswith(prefix)
startswith(s, prefix) ==
    Len(s) >= Len(prefix) /\ SubSeq(s, 1, Len(prefix)) = prefix

\* str.find(sep) for a one-character sep, 1-based; 0 when sep does not occur
RECURSIVE find_from(_, _, _)
find_from(s, sep, i) ==
    IF i > Len(s) THEN 0
    ELSE IF Char(s, i) = sep THEN i
    ELSE find_from(s, sep, i + 1)

find(s, sep) == find_from(s, sep, 1)

\* str.split(sep, maxsplit): at most maxsplit cuts, the rest kept verbatim in
\* the last part; maxsplit = -1 is Python's "no limit"
RECURSIVE split(_, _, _)
split(s, sep, maxsplit) ==
    LET i == find(s, sep)
    IN  IF maxsplit = 0 \/ i = 0
        THEN <<s>>
        ELSE <<SubSeq(s, 1, i - 1)>>
               \o split(SubSeq(s, i + 1, Len(s)), sep,
                        IF maxsplit < 0 THEN maxsplit ELSE maxsplit - 1)

\* sep.join(parts)
RECURSIVE join(_, _)
join(sep, parts) ==
    IF Len(parts) = 0 THEN ""
    ELSE IF Len(parts) = 1 THEN parts[1]
    ELSE parts[1] \o sep \o join(sep, Tail(parts))

LowerLetters ==
    <<"a", "b", "c", "d", "e", "f", "g", "h", "i", "j", "k", "l", "m",
      "n", "o", "p", "q", "r", "s", "t", "u", "v", "w", "x", "y", "z">>

UpperLetters ==
    <<"A", "B", "C", "D", "E", "F", "G", "H", "I", "J", "K", "L", "M",
      "N", "O", "P", "Q", "R", "S", "T", "U", "V", "W", "X", "Y", "Z">>

upper_char(c) ==
    IF \E k \in 1..26 : LowerLetters[k] = c
    THEN UpperLetters[CHOOSE k \in 1..26 : LowerLetters[k] = c]
    ELSE c

\* str.upper() (ASCII letters; every other character of the inputs is kept)
RECURSIVE upper(_)
upper(s) ==
    IF Len(s) = 0 THEN ""
    ELSE upper_char(Char(s, 1)) \o upper(SubSeq(s, 2, Len(s)))

(***************************************************************************)
(* datetime.strptime(data_string, '%d-%m-%Y %H:%M:%S.%f')   (line 40)      *)
(*                                                                         *)
(* The library turns the format into the regular expression                *)
(*   (3[0-1]|[1-2]\d|0[1-9]|[1-9]| [1-9]) - (1[0-2]|0[1-9]|[1-9]) - \d{4}  *)
(*   \s+ (2[0-3]|[0-1]\d|\d) : ([0-5]\d|\d) : (6[0-1]|[0-5]\d|\d) \.       *)
(*   [0-9]{1,6}                                                            *)
(* matches it at the start of the text, raises ValueError when it does not *)
(* match or when text remains after the match, and raises ValueError when  *)
(* datetime(...) rejects the values (day of month, year 0, second 60/61).  *)
(***************************************************************************)
DigitVal(c) == CHOOSE n \in 0..9 : Char("0123456789", n + 1) = c

RECURSIVE ToInt(_)
ToInt(s) ==
    IF Len(s) = 0 THEN 0
    ELSE 10 * ToInt(SubSeq(s, 1, Len(s) - 1)) + DigitVal(Char(s, Len(s)))

\* one directive's alternatives, on a candidate token t of length 1 or 2
re_directive(kind, t) ==
    LET a == Char(t, 1)
        b == Char(t, 2)
        two == Len(t) = 2
        one == Len(t) = 1
    IN  CASE kind = "d" ->
               \/ two /\ a = "3" /\ b \in {"0", "1"}
               \/ two /\ a \in {"1", "2"} /\ b \in Digits
               \/ two /\ a = "0" /\ b \in Digits \ {"0"}
               \/ one /\ a \in Digits \ {"0"}
               \/ two /\ a = " " /\ b \in Digits \ {"0"}
          [] kind = "m" ->
               \/ two /\ a = "1" /\ b \in {"0", "1", "2"}
               \/ two /\ a = "0" /\ b \in Digits \ {"0"}
               \/ one /\ a \in Digits \ {"0"}
          [] kind = "H" ->
               \/ two /\ a = "2" /\ b \in {"0", "1", "2", "3"}
               \/ two /\ a \in {"0", "1"} /\ b \in Digits
               \/ one /\ a \in Digits
          [] kind = "M" ->
               \/ two /\ a \in {"0", "1", "2", "3", "4", "5"} /\ b \in Digits
               \/ one /\ a \in Digits
          [] kind = "S" ->
               \/ two /\ a = "6" /\ b \in {"0", "1"}
               \/ two /\ a \in {"0", "1", "2", "3", "4", "5"} /\ b \in Digits
               \/ one /\ a \in Digits

\* length of the directive's match at position i when the literal `follow`
\* must come next (the regex backtracks from the 2-character alternatives to
\* the 1-character one); 0 when nothing matches
match_len(s, i, kind, follow) ==
    LET fits(n) == /\ i >= 1
                   /\ i + n <= Len(s)
                   /\ re_directive(kind, SubSeq(s, i, i + n - 1))
                   /\ Char(s, i + n) = follow
    IN  IF fits(2) THEN 2 ELSE IF fits(1) THEN 1 ELSE 0

\* number of digits at position i, at most `most` (greedy [0-9]{1,most})
RECURSIVE digit_run(_, _, _)
digit_run(s, i, most) ==
    IF most = 0 \/ i > Len(s) \/ Char(s, i) \notin Digits
    THEN 0
    ELSE 1 + digit_run(s, i + 1, most - 1)

\* first position at or after i that holds no whitespace (greedy \s+)
RECURSIVE skip_space(_, _)
skip_space(s, i) ==
    IF i <= Len(s) /\ Char(s, i) \in Whitespace
    THEN skip_space(s, i + 1)
    ELSE i

RECURSIVE Pow10(_)
Pow10(n) == IF n = 0 THEN 1 ELSE 10 * Pow10(n - 1)

is_leap(year) ==
    year % 4 = 0 /\ (year % 100 # 0 \/ year % 400 = 0)

days_in_month(year, month) ==
    IF month = 2 THEN (IF is_leap(year) THEN 29 ELSE 28)
    ELSE IF month \in {4, 6, 9, 11} THEN 30
    ELSE 31

\* datetime.min: year 1, January 1st, 00:00:00.000000
\* a datetime is <<year, month, day, hour, minute, second, microsecond>>
datetime_min == <<1, 1, 1, 0, 0, 0, 0>>

\* outcome of a call: it returned `value`, or raised `exc`
Return(v) == [exc |-> "none", value |-> v]

RaiseDatetime(e) == [exc |-> e, value |-> datetime_min]

\* The match is computed left to right; a match state is the next position,
\* whether the pattern still matches, and the values of the groups so far.
MatchStart == [i |-> 1, ok |-> TRUE, groups |-> <<>>]

MatchFail == [i |-> 0, ok |-> FALSE, groups |-> <<>>]

\* the group of n characters at st.i is converted, and the literal skipped
take_group(st, s, n) ==
    IF n = 0 THEN MatchFail
    ELSE [i |-> st.i + n + 1, ok |-> TRUE,
          groups |-> Append(st.groups,
                            ToInt(lstrip(SubSeq(s, st.i, st.i + n - 1))))]

\* one of %d %m %H %M %S, then the literal that follows it in the format
match_directive(st, s, kind, follow) ==
    IF ~st.ok THEN st
    ELSE take_group(st, s, match_len(s, st.i, kind, follow))

\* %Y, then the format's space: \d\d\d\d\s+
match_year(st, s) ==
    IF ~st.ok THEN st
    ELSE IF /\ st.i + 4 <= Len(s)
            /\ digit_run(s, st.i, 4) = 4
            /\ Char(s, st.i + 4) \in Whitespace
    THEN [i |-> skip_space(s, st.i + 4), ok |-> TRUE,
          groups |-> Append(st.groups, ToInt(SubSeq(s, st.i, st.i + 3)))]
    ELSE MatchFail

\* the n digits at st.i, right-padded with zeros to microseconds
take_fraction(st, s, n) ==
    IF n = 0 THEN MatchFail
    ELSE [i |-> st.i + n, ok |-> TRUE,
          groups |-> Append(st.groups,
                            ToInt(SubSeq(s, st.i, st.i + n - 1))
                              * Pow10(6 - n))]

\* %f: one to six digits
match_fraction(st, s) ==
    IF ~st.ok THEN st
    ELSE take_fraction(st, s, digit_run(s, st.i, 6))

\* found = format_regex.match(data_string)
format_regex_match(s) ==
    match_fraction(
      match_directive(
        match_directive(
          match_directive(
            match_year(
              match_directive(
                match_directive(MatchStart, s, "d", "-"),
                s, "m", "-"),
              s),
            s, "H", ":"),
          s, "M", ":"),
        s, "S", "."),
      s)

\* datetime(year, month, day, hour, minute, second, microsecond) accepts the
\* values (the regex already bounds month, hour, minute and the day by 31)
datetime_accepts(g) ==
    /\ g[3] >= 1
    /\ g[1] <= days_in_month(g[3], g[2])
    /\ g[6] <= 59

\* the groups <<d, m, Y, H, M, S, f>> as a datetime
to_datetime(g) == <<g[3], g[2], g[1], g[4], g[5], g[6], g[7]>>

\* what strptime does with the match `found` on a text of `length` characters
strptime_found(found, length) ==
    IF ~found.ok
    THEN RaiseDatetime("ValueError")      \* does not match format
    ELSE IF found.i # length + 1
    THEN RaiseDatetime("ValueError")      \* unconverted data remains
    ELSE IF ~datetime_accepts(found.groups)
    THEN RaiseDatetime("ValueError")      \* value out of range
    ELSE Return(to_datetime(found.groups))

strptime(data_string) ==
    strptime_found(format_regex_match(data_string), Len(data_string))

(***************************************************************************)
(* RuntimeLogLine.parse_log_line                            (lines 35-44)  *)
(***************************************************************************)
\* line 8; Python's LOG_LEVELS[i] is LOG_LEVELS[i + 1] here
LOG_LEVELS == <<"ERROR", "WARNING", "INFO", "DEBUG", "VERBOSE1", "VERBOSE2">>

\* a RuntimeLogLine is [timestamp, level, message]; line 44's return value
Sentinel ==
    [timestamp |-> datetime_min, level |-> -1,
     message |-> "Invalid log line format"]

\* an exception left the try body: no value was returned
RaiseEntry(e) ==
    [exc |-> e,
     value |-> [timestamp |-> datetime_min, level |-> -1, message |-> ""]]

RaiseInt(e) == [exc |-> e, value |-> -1]

\* slip: maxsplit is off by one
split_fields_six_cuts(line) == split(line, ";", 6)

\* slip: the maxsplit argument is left out
split_fields_unlimited(line) == split(line, ";", -1)

\* log_line.split(';', 5)                                       (line 37)
split_fields(line) == split(line, ";", 5)

\* slip: the unused 6th name is dropped from the assignment's check
unpacks_five_or_more(parts) == Len(parts) >= 5

\* the assignment to six names succeeds only for exactly six parts; any other
\* count raises ValueError                                      (line 37)
unpacks(parts) == Len(parts) = 6

\* slip: the startswith test is left out
truncate_any_message(message) == split(message, ":", -1)[1]

\* lines 38-39
truncate_error_message(message) ==
    IF \/ startswith(message, "Error invoking ")
       \/ startswith(message, "Error executing ")
       \/ startswith(message, "Error running ")
    THEN split(message, ":", -1)[1]
    ELSE message

\* list.index: 0-based position of the first equal element, or ValueError
list_index(list, x) ==
    IF \E k \in 1..Len(list) : list[k] = x
    THEN Return((CHOOSE k \in 1..Len(list) :
                    list[k] = x /\ \A j \in 1..(k - 1) : list[j] # x) - 1)
    ELSE RaiseInt("ValueError")

\* slip: .upper() is left out
level_index_case_sensitive(level_str) == list_index(LOG_LEVELS, level_str)

\* LOG_LEVELS.index(level_str.upper())                          (line 41)
level_index(level_str) == list_index(LOG_LEVELS, upper(level_str))

\* lines 40-42, given the outcomes of strptime and of LOG_LEVELS.index: the
\* first exception leaves the try body, otherwise the triple is returned
parsed_fields(timestamp, level, message) ==
    IF timestamp.exc # "none" THEN RaiseEntry(timestamp.exc)
    ELSE IF level.exc # "none" THEN RaiseEntry(level.exc)
    ELSE Return([timestamp |-> timestamp.value,
                 level |-> level.value,
                 message |-> message])

\* lines 37-42 on the parts of the split:
\* timestamp_str, level_str, module, object, message, unused = parts
unpack_and_parse(parts) ==
    IF ~unpacks(parts)
    THEN RaiseEntry("ValueError")
    ELSE parsed_fields(strptime(parts[1]),
                       level_index(parts[2]),
                       truncate_error_message(parts[5]))

\* the try body, lines 37-42
try_body(line) == unpack_and_parse(split_fields(line))

\* slip: the handler names another exception class
except_IndexError(r) ==
    IF r.exc = "IndexError" THEN Return(Sentinel) ELSE r

\* except ValueError: return datetime.min, -1, "Invalid log line format"
\* (lines 43-44); any other exception leaves the call
except_ValueError(r) ==
    IF r.exc = "ValueError" THEN Return(Sentinel) ELSE r

parse_log_line(line) == except_ValueError(try_body(line))

\* RuntimeLogLine(log_line): __init__ stores what parse_log_line returns
\* (lines 32-33)
RuntimeLogLine(line) == parse_log_line(line)

(***************************************************************************)
(* Inputs of the parser: a text is assembled from fields, so that what the *)
(* parser recovers can be compared with what was put in.                   *)
(***************************************************************************)
TimestampFields ==
    { "01-02-2023 10:00:00.000000",     \* DD-MM-YYYY HH:MM:SS.ffffff
      "29-02-2024 23:59:59.999999",     \* leap day
      "1-2-2023 1:0:0.5",               \* unpadded fields, one fraction digit
      "01-02-2023  10:00:00.25",        \* two spaces, two fraction digits
      "31-02-2023 10:00:00.000000",     \* right shape, no such day
      "01-02-2023 10:00:60.000000",     \* right shape, second 60
      "01-02-2023 10:00:00.0000000",    \* seven fraction digits
      "01-02-2023 10:00:00",            \* no fraction
      "2023-02-01 10:00:00.000000",     \* year first
      "" }

LevelFields ==
    { "ERROR", "error", "Error", "WARNING", "Warning", "info", "DEBUG",
      "Verbose1", "VERBOSE2", "TRACE", "ERRO", " ERROR", "" }

MessageFields ==
    { "hello",
      "key: value",
      "Error invoking Foo: bar: baz",
      "Error executing Bar",
      "Error running X:",
      "Error invoking: x",
      "error running y: z",
      "" }

TrailingTexts == { "", "tail", " more detail" }

RECURSIVE extra_semis(_)
extra_semis(n) == IF n = 0 THEN "" ELSE ";x" \o extra_semis(n - 1)

\* the text made of the first src.n fields, the 6th being rest
assemble(f) ==
    join(";", SubSeq(<<f.ts, f.lvl, "Mod", "Obj", f.msg, f.rest>>, 1, f.n))

NoSrc == [ts |-> "", lvl |-> "", msg |-> "", rest |-> "", n |-> 0]

InitParse ==
    /\ \E ts \in TimestampFields, lvl \in LevelFields, msg \in MessageFields,
          tr \in TrailingTexts, k \in 0..MaxExtraSemis, n \in 1..6 :
          src = [ts |-> ts, lvl |-> lvl, msg |-> msg,
                 rest |-> tr \o extra_semis(k), n |-> n]
    /\ log_line = assemble(src)
    /\ pc = "call"
    /\ result = RaiseEntry("pending")
    /\ file = <<>>
    /\ pos = 0
    /\ log_entry = <<>>
    /\ entry_lines = <<>>
    /\ log_contents = <<>>
    /\ flushed = <<>>
    /\ exc = "none"
    /\ visited = 0
    /\ output = <<>>

\* self.timestamp, self.level, self.message = self.parse_log_line(log_line)
RuntimeLogLine_init ==
    /\ pc = "call"
    /\ result' = RuntimeLogLine(log_line)
    /\ pc' = "returned"
    /\ UNCHANGED <<src, log_line, file, pos, log_entry, entry_lines,
                   log_contents, flushed, exc, visited, output>>

NextParse == RuntimeLogLine_init

SpecParse == InitParse /\ [][NextParse]_vars

(***************************************************************************)
(* read_log_files, for one opened .log file                 (lines 59-72)  *)
(* The function runs the same scan, with a fresh log_entry, on every .log  *)
(* file of the folder; the model follows the scan of one file.             *)
(***************************************************************************)
\* the lines "for line in file" yields keep their "\n"; only the last line
\* of a file can lack it
PhysicalLines ==
    { "01-02-2023 10:00:00.000000;ERROR;M;O;oops\n",
      "more detail",
      "02-02-2023 09:30:00.000000;DEBUG;Mod;Obj;hello;\n",
      "01-02-2023 10:00:00.000000;warning;M;O;Error running X: y: z;t;u\n",
      "31-01-2023 23:59:59.999999;Error;M;O;Error invoking Foo: bar: baz;\n",
      "99-99-9999 not a date\n",
      "  continuation; text\n",
      "\n",
      "abcd\n",
      "ab-\n",
      "a" }

ends_with_newline(line) == Len(line) > 0 /\ Char(line, Len(line)) = "\n"

Files ==
    { f \in UNION { [1..n -> PhysicalLines] : n \in 0..MaxLines } :
        \A i \in 1..(Len(f) - 1) : ends_with_newline(f[i]) }

RaiseBool(e) == [exc |-> e, value |-> FALSE]

\* line.strip() and line[2] == '-' and line[5] == '-'          (line 65)
\* `and` evaluates left to right and stops at the first false operand; an
\* index past the end of the str raises IndexError
is_new_entry(line) ==
    IF strip(line) = "" THEN Return(FALSE)
    ELSE IF Len(line) < 3 THEN RaiseBool("IndexError")
    ELSE IF Char(line, 3) # "-" THEN Return(FALSE)
    ELSE IF Len(line) < 6 THEN RaiseBool("IndexError")
    ELSE Return(Char(line, 6) = "-")

\* slip: the lines are joined with the empty string
merge_without_space(lines) == strip(join("", lines))

\* ' '.join(log_entry).strip()                              (lines 67, 71)
merge(lines) == strip(join(" ", lines))

InitRead ==
    /\ file \in Files
    /\ pc = "scan"
    /\ pos = 0
    /\ log_entry = <<>>
    /\ entry_lines = <<>>
    /\ log_contents = <<>>
    /\ flushed = <<>>
    /\ exc = "none"
    /\ visited = 0
    /\ output = <<>>
    /\ src = NoSrc
    /\ log_line = ""
    /\ result = RaiseEntry("pending")

\* the append of lines 67 and 71, given the outcome r of RuntimeLogLine(raw):
\* an exception of the constructor leaves read_log_files
AppendEntry(next_pc, raw, r) ==
    IF r.exc # "none"
    THEN /\ pc' = "raised"
         /\ exc' = r.exc
         /\ UNCHANGED <<log_contents, flushed>>
    ELSE /\ pc' = next_pc
         /\ exc' = exc
         /\ log_contents' = Append(log_contents, r.value)
         /\ flushed' = Append(flushed, [lines |-> entry_lines,
                                        raw |-> raw,
                                        entry |-> r.value])

\* log_contents.append(RuntimeLogLine(' '.join(log_entry).strip()))
Flush(next_pc) ==
    AppendEntry(next_pc, merge(log_entry), RuntimeLogLine(merge(log_entry)))

\* one iteration of "for line in file"                      (lines 64-69)
ScanLine ==
    /\ pc = "scan"
    /\ pos < Len(file)
    /\ LET line == file[pos + 1]
           test == is_new_entry(line)
       IN  IF test.exc # "none"
           THEN /\ pc' = "raised"
                /\ exc' = test.exc
                /\ UNCHANGED <<pos, log_entry, entry_lines, log_contents,
                               flushed>>
           ELSE IF test.value /\ log_entry # <<>>
           THEN /\ Flush("scan")
                /\ IF pc' = "scan"
                   THEN /\ log_entry' = <<strip(line)>>
                        /\ entry_lines' = <<pos + 1>>
                        /\ pos' = pos + 1
                   ELSE UNCHANGED <<pos, log_entry, entry_lines>>
           ELSE /\ log_entry' = Append(log_entry, strip(line))
                /\ entry_lines' = Append(entry_lines, pos + 1)
                /\ pos' = pos + 1
                /\ UNCHANGED <<pc, exc, log_contents, flushed>>
    /\ UNCHANGED <<src, log_line, result, file, visited, output>>

\* the file is exhausted: flush what is accumulated, return  (lines 70-72)
EndOfFile ==
    /\ pc = "scan"
    /\ pos = Len(file)
    /\ IF log_entry # <<>>
       THEN Flush("sort")
       ELSE /\ pc' = "sort"
            /\ UNCHANGED <<exc, log_contents, flushed>>
    /\ UNCHANGED <<src, log_line, result, file, pos, log_entry, entry_lines,
                   visited, output>>

(***************************************************************************)
(* __main__                                                 (lines 89-94)  *)
(***************************************************************************)
\* datetime comparison: <<year, ..., microsecond>> in lexicographic order
datetime_lt(a, b) ==
    \E k \in 1..7 : a[k] < b[k] /\ \A j \in 1..(k - 1) : a[j] = b[j]

\* insert e behind every element whose key is not greater (stable)
RECURSIVE insert_sorted(_, _)
insert_sorted(e, sorted) ==
    IF Len(sorted) = 0 THEN <<e>>
    ELSE IF datetime_lt(e.timestamp, sorted[1].timestamp)
    THEN <<e>> \o sorted
    ELSE <<sorted[1]>> \o insert_sorted(e, Tail(sorted))

RECURSIVE sort_from(_, _)
sort_from(list, sorted) ==
    IF Len(list) = 0 THEN sorted
    ELSE sort_from(Tail(list), insert_sorted(list[1], sorted))

\* slip: the sort is left out
not_sorted(list) == list

\* list.sort(key=lambda x: x.timestamp): ascending and stable   (line 91)
sort_by_timestamp(list) == sort_from(list, <<>>)

RECURSIVE int_str(_)
int_str(n) ==
    IF n < 10 THEN Char("0123456789", n + 1)
    ELSE int_str(n \div 10) \o Char("0123456789", (n % 10) + 1)

RECURSIVE zfill(_, _)
zfill(s, width) == IF Len(s) >= width THEN s ELSE zfill("0" \o s, width)

\* str.ljust(width)
RECURSIVE ljust(_, _)
ljust(s, width) == IF Len(s) >= width THEN s ELSE ljust(s \o " ", width)

\* timestamp.strftime("%d-%m-%Y %H:%M:%S"): the microsecond is not printed
strftime(t) ==
    zfill(int_str(t[3]), 2) \o "-" \o zfill(int_str(t[2]), 2) \o "-"
      \o zfill(int_str(t[1]), 4) \o " " \o zfill(int_str(t[4]), 2) \o ":"
      \o zfill(int_str(t[5]), 2) \o ":" \o zfill(int_str(t[6]), 2)

\* content.level <= LOG_LEVELS.index('WARNING') and content.level >= 0
is_printed(content) ==
    content.level <= list_index(LOG_LEVELS, "WARNING").value
      /\ content.level >= 0

\* the f-string of line 94
format_line(content) ==
    strftime(content.timestamp) \o "; "
      \o ljust(LOG_LEVELS[content.level + 1], 10) \o "; " \o content.message

\* log_contents.sort(key=lambda x: x.timestamp)                 (line 91)
SortContents ==
    /\ pc = "sort"
    /\ log_contents' = sort_by_timestamp(log_contents)
    /\ pc' = "print"
    /\ UNCHANGED <<src, log_line, result, file, pos, log_entry, entry_lines,
                   flushed, exc, visited, output>>

\* one iteration of "for content in log_contents"           (lines 92-94)
ConsoleLine ==
    /\ pc = "print"
    /\ visited < Len(log_contents)
    /\ LET content == log_contents[visited + 1]
       IN  output' = IF is_printed(content)
                     THEN Append(output, format_line(content))
                     ELSE output
    /\ visited' = visited + 1
    /\ UNCHANGED <<pc, src, log_line, result, file, pos, log_entry,
                   entry_lines, log_contents, flushed, exc>>

\* the loop is over and the program ends
Finish ==
    /\ pc = "print"
    /\ visited = Len(log_contents)
    /\ pc' = "done"
    /\ UNCHANGED <<src, log_line, result, file, pos, log_entry, entry_lines,
                   log_contents, flushed, exc, visited, output>>

Init == InitRead

Next == ScanLine \/ EndOfFile \/ SortContents \/ ConsoleLine \/ Finish

Spec == Init /\ [][Next]_vars

(***************************************************************************)
(* Vocabulary of the properties                                            *)
(***************************************************************************)
\* number of occurrences of the character c in s
RECURSIVE count_char(_, _)
count_char(s, c) ==
    IF Len(s) = 0 THEN 0
    ELSE (IF Char(s, 1) = c THEN 1 ELSE 0)
           + count_char(SubSeq(s, 2, Len(s)), c)

\* the literal shape DD-MM-YYYY HH:MM:SS.ffffff: 26 characters, digits
\* everywhere but at the six separators
exact_timestamp_shape(ts) ==
    /\ Len(ts) = 26
    /\ Char(ts, 3) = "-" /\ Char(ts, 6) = "-" /\ Char(ts, 11) = " "
    /\ Char(ts, 14) = ":" /\ Char(ts, 17) = ":" /\ Char(ts, 20) = "."
    /\ \A i \in (1..26) \ {3, 6, 11, 14, 17, 20} : Char(ts, i) \in Digits

\* the text is DD-MM-YYYY HH:MM:SS.ffffff and names a moment that exists
exact_timestamp(ts) ==
    /\ exact_timestamp_shape(ts)
    /\ ToInt(SubSeq(ts, 1, 2)) \in
         1..days_in_month(ToInt(SubSeq(ts, 7, 10)), ToInt(SubSeq(ts, 4, 5)))
    /\ ToInt(SubSeq(ts, 4, 5)) \in 1..12
    /\ ToInt(SubSeq(ts, 7, 10)) >= 1
    /\ ToInt(SubSeq(ts, 12, 13)) <= 23
    /\ ToInt(SubSeq(ts, 15, 16)) <= 59
    /\ ToInt(SubSeq(ts, 18, 19)) <= 59

\* c and d are the same character or the two cases of one letter
same_letter(c, d) ==
    \/ c = d
    \/ \E k \in 1..26 : {c, d} = {LowerLetters[k], UpperLetters[k]}

equal_ignoring_case(a, b) ==
    /\ Len(a) = Len(b)
    /\ \A i \in 1..Len(a) : same_letter(Char(a, i), Char(b, i))

\* the level field names a token of the vocabulary, whatever its case
names_level(lvl) == \E k \in 1..6 : equal_ignoring_case(lvl, LOG_LEVELS[k])

has_error_prefix(m) ==
    \/ startswith(m, "Error invoking ")
    \/ startswith(m, "Error executing ")
    \/ startswith(m, "Error running ")

Returned == pc = "returned"

entry == result.value

(***************************************************************************)
(* C1, as stated: parse_log_line always returns, never raises; whenever    *)
(* the split does not give 6 parts, or the timestamp field is not of the   *)
(* pattern DD-MM-YYYY HH:MM:SS.ffffff, or the level is not in the          *)
(* vocabulary, the result is the sentinel; and level -1 only comes with    *)
(* the sentinel.                                                           *)
(***************************************************************************)
C1_AnyDeviationIsSentinel ==
    Returned =>
      /\ result.exc = "none"
      /\ (\/ count_char(log_line, ";") < 5
          \/ ~exact_timestamp(src.ts)
          \/ ~names_level(src.lvl)) => entry = Sentinel
      /\ entry.level = -1 => entry = Sentinel

(***************************************************************************)
(* C1, amended: parse_log_line always returns, never raises; whenever the  *)
(* split does not give 6 parts, or strptime with '%d-%m-%Y %H:%M:%S.%f'    *)
(* rejects the timestamp field, or the level is not in the vocabulary, the *)
(* result is the sentinel; and level -1 only comes with the sentinel.      *)
(***************************************************************************)
C1_TotalWithSentinel ==
    Returned =>
      /\ result.exc = "none"
      /\ (\/ count_char(log_line, ";") < 5
          \/ strptime(src.ts).exc # "none"
          \/ ~names_level(src.lvl)) => entry = Sentinel
      /\ entry.level = -1 => entry = Sentinel

\* a text with six fields and a known level whose timestamp strptime rejects
C1_Witness ==
    /\ Returned
    /\ src.n = 6
    /\ src.ts = "31-02-2023 10:00:00.000000"
    /\ src.lvl = "WARNING"
    /\ result = Return(Sentinel)

(***************************************************************************)
(* C2, as stated: a text that does not contain exactly 5 semicolons        *)
(* (fewer or more) parses to the sentinel, without raising.                *)
(***************************************************************************)
C2_NotFiveSemicolonsIsSentinel ==
    (Returned /\ count_char(log_line, ";") # 5) => result = Return(Sentinel)

(***************************************************************************)
(* C2, amended: a text with fewer than 5 semicolons parses to the          *)
(* sentinel, without raising.                                              *)
(***************************************************************************)
C2_FewerThanFiveIsSentinel ==
    (Returned /\ count_char(log_line, ";") < 5) => result = Return(Sentinel)

\* four semicolons in front of a valid timestamp and level
C2_Witness ==
    /\ Returned
    /\ count_char(log_line, ";") = 4
    /\ src.ts = "01-02-2023 10:00:00.000000"
    /\ src.lvl = "ERROR"
    /\ result = Return(Sentinel)

(***************************************************************************)
(* C3: the text is split at its first 5 semicolons into exactly 6 parts,   *)
(* the 6th keeping every further semicolon; with a valid timestamp field   *)
(* and level field, the timestamp comes from field 1, the level from field *)
(* 2 and the message from field 5, whatever the 6th field holds.           *)
(***************************************************************************)
C3_FieldsRecovered ==
    (Returned /\ src.n = 6) =>
      /\ split_fields(log_line)
           = <<src.ts, src.lvl, "Mod", "Obj", src.msg, src.rest>>
      /\ (strptime(src.ts).exc = "none" /\ names_level(src.lvl)) =>
           /\ result.exc = "none"
           /\ entry.timestamp = strptime(src.ts).value
           /\ LOG_LEVELS[entry.level + 1] = upper(src.lvl)
           /\ entry.message = truncate_error_message(src.msg)

\* a parsed entry whose 6th field holds further semicolons
C3_Witness ==
    /\ Returned
    /\ src.n = 6
    /\ count_char(src.rest, ";") >= 2
    /\ entry.level = 1
    /\ entry.message = "hello"

(***************************************************************************)
(* C4: the parsed message is the 5th field unchanged unless the field      *)
(* begins with "Error invoking ", "Error executing " or "Error running ";  *)
(* then it is the part of the field before its first colon (the whole      *)
(* field when it has no colon).                                            *)
(***************************************************************************)
C4_MessageNormalised ==
    (Returned /\ entry.level >= 0) =>
      IF has_error_prefix(src.msg)
      THEN /\ startswith(src.msg, entry.message)
           /\ count_char(entry.message, ":") = 0
           /\ \/ entry.message = src.msg
              \/ Char(src.msg, Len(entry.message) + 1) = ":"
      ELSE entry.message = src.msg

\* the truncation law's example
C4_Witness ==
    /\ Returned
    /\ entry.level >= 0
    /\ src.msg = "Error invoking Foo: bar: baz"
    /\ entry.message = "Error invoking Foo"

(***************************************************************************)
(* C5: every entry has a level in -1..5; for an otherwise well-formed      *)
(* text the level is the index of the vocabulary token the level field     *)
(* names in any case, and a level field naming no token gives the          *)
(* sentinel.                                                               *)
(***************************************************************************)
C5_LevelClosedCaseInsensitive ==
    Returned =>
      /\ entry.level \in -1..5
      /\ (src.n = 6 /\ strptime(src.ts).exc = "none") =>
           /\ \A k \in 1..6 :
                equal_ignoring_case(src.lvl, LOG_LEVELS[k])
                  => entry.level = k - 1
           /\ ~names_level(src.lvl) => entry = Sentinel

\* a mixed-case level field resolved to index 0
C5_Witness ==
    /\ Returned
    /\ src.lvl = "Error"
    /\ entry.level = 0

(***************************************************************************)
(* Vocabulary of the properties of read_log_files and __main__             *)
(***************************************************************************)
\* non-empty after stripping, '-' at index 2 and '-' at index 5
boundary_shape(line) ==
    /\ strip(line) # ""
    /\ Len(line) >= 6
    /\ Char(line, 3) = "-"
    /\ Char(line, 6) = "-"

\* line i of the file opened a group / was put into a group
opened(i) ==
    \/ \E k \in 1..Len(flushed) : flushed[k].lines[1] = i
    \/ entry_lines # <<>> /\ entry_lines[1] = i

appended(i) ==
    \/ \E k \in 1..Len(flushed) :
         \E j \in 1..Len(flushed[k].lines) : flushed[k].lines[j] = i
    \/ \E j \in 1..Len(entry_lines) : entry_lines[j] = i

RECURSIVE flatten(_)
flatten(seqs) ==
    IF Len(seqs) = 0 THEN <<>> ELSE seqs[1] \o flatten(Tail(seqs))

\* the scan of the file is over: read_log_files returned, or it raised
ScanReturned == pc \in {"sort", "print", "done"}

ScanEnded == ScanReturned \/ pc = "raised"

\* the groups are consecutive runs of the file's lines, in file order, that
\* cover every line once; a group is closed exactly by the next boundary line;
\* each group gave one entry, built from its stripped lines joined by spaces
ScanPartition ==
    /\ flatten([k \in 1..Len(flushed) |-> flushed[k].lines])
         = [i \in 1..Len(file) |-> i]
    /\ \A k \in 1..Len(flushed) :
         /\ flushed[k].lines # <<>>
         /\ k >= 2 => boundary_shape(file[flushed[k].lines[1]])
         /\ \A j \in 2..Len(flushed[k].lines) :
              ~boundary_shape(file[flushed[k].lines[j]])
         /\ flushed[k].raw =
              strip(join(" ", [j \in 1..Len(flushed[k].lines) |->
                                 strip(file[flushed[k].lines[j]])]))
    /\ Len(log_contents) = Len(flushed)
    /\ pc = "sort" =>
         log_contents = [k \in 1..Len(flushed) |-> flushed[k].entry]
    /\ file = <<>> => log_contents = <<>>

(***************************************************************************)
(* C6: a line starts a new entry iff it is non-empty after stripping and   *)
(* has '-' at index 2 and at index 5; every other line, in particular      *)
(* every line shorter than 6 characters, is appended to the accumulating   *)
(* entry, and the boundary test raises no error.                           *)
(***************************************************************************)
C6_BoundaryTestNeverRaises ==
    /\ exc = "none"
    /\ \A i \in 2..pos : opened(i) <=> boundary_shape(file[i])
    /\ \A i \in 1..Len(file) :
         (Len(file[i]) < 6 /\ (pos >= i \/ ScanEnded))
           => (appended(i) /\ (i >= 2 => ~opened(i)))

(***************************************************************************)
(* C7: for any sequence of lines the scan partitions the lines into        *)
(* consecutive groups in file order and builds one entry per group; a      *)
(* group is flushed exactly when a boundary line arrives or the file ends; *)
(* no line is lost or counted twice; every group but the first opens with  *)
(* a boundary line; an empty file adds no entry.                           *)
(***************************************************************************)
C7_ScanPartitionsEveryFile == ScanEnded => ScanPartition

\* what the scan does on the files it reads without raising
ScanPartitionsOnReturn == ScanReturned => ScanPartition

(***************************************************************************)
(* C8, as stated: the file ["...;ERROR;M;O;oops", "more detail"] is merged *)
(* into "...;ERROR;M;O;oops more detail" and gives an ERROR entry with     *)
(* message "oops more detail".                                             *)
(***************************************************************************)
OopsFile ==
    <<"01-02-2023 10:00:00.000000;ERROR;M;O;oops\n", "more detail">>

OopsMerged == "01-02-2023 10:00:00.000000;ERROR;M;O;oops more detail"

C8_MessageIsOopsMoreDetail ==
    (file = OopsFile /\ ScanReturned) =>
      /\ Len(flushed) = 1
      /\ flushed[1].raw = OopsMerged
      /\ flushed[1].entry.level = 0
      /\ flushed[1].entry.message = "oops more detail"

(***************************************************************************)
(* C8, amended: the file is merged with a single space into                *)
(* "...;ERROR;M;O;oops more detail"; the merged text has four semicolons,  *)
(* so the one resulting entry is the sentinel.                             *)
(***************************************************************************)
C8_MergedTextIsSentinel ==
    (file = OopsFile /\ ScanReturned) =>
      /\ Len(flushed) = 1
      /\ flushed[1].raw = OopsMerged
      /\ count_char(flushed[1].raw, ";") = 4
      /\ flushed[1].entry = Sentinel

C8_Witness ==
    /\ file = OopsFile
    /\ pc = "sort"
    /\ flushed[1].lines = <<1, 2>>
    /\ log_contents = <<Sentinel>>

(***************************************************************************)
(* C9: the console output has one line for exactly the entries of the      *)
(* parsed collection with level 0 or 1, in ascending timestamp order;      *)
(* entries of any other level, the sentinel included, are not printed.     *)
(***************************************************************************)
error_or_warning(e) == e.level \in {0, 1}

occurrences(list, e) == Cardinality({k \in 1..Len(list) : list[k] = e})

C9_ConsoleOutput ==
    pc = "done" =>
      \* the collection is the parsed one, in ascending timestamp order
      /\ \A k \in 1..Len(flushed) :
           occurrences(log_contents, flushed[k].entry)
             = occurrences([j \in 1..Len(flushed) |-> flushed[j].entry],
                           flushed[k].entry)
      /\ Len(log_contents) = Len(flushed)
      /\ \A i \in 1..Len(log_contents) : \A j \in (i + 1)..Len(log_contents) :
           ~datetime_lt(log_contents[j].timestamp, log_contents[i].timestamp)
      \* one line per ERROR or WARNING entry, in that order, and nothing else
      /\ output = [k \in 1..Len(SelectSeq(log_contents, error_or_warning)) |->
                     format_line(SelectSeq(log_contents, error_or_warning)[k])]

\* a WARNING read before an earlier ERROR, and a DEBUG entry that is left out
C9_Witness ==
    /\ pc = "done"
    /\ Len(flushed) = 3
    /\ flushed[1].entry.level = 1
    /\ flushed[2].entry.level = 0
    /\ flushed[3].entry.level = 3
    /\ output = <<"31-01-2023 23:59:59; ERROR     ; Error invoking Foo",
                  "01-02-2023 10:00:00; WARNING   ; Error running X">>

(***************************************************************************)
(* C10: when the opening line of a group holds at least 5 semicolons, the  *)
(* continuation lines land in the 6th field: the first five fields, and    *)
(* the entry, are those of the opening line alone.                         *)
(***************************************************************************)
opening_line(k) == strip(file[flushed[k].lines[1]])

C10_ContinuationDropped ==
    \A k \in 1..Len(flushed) :
      count_char(opening_line(k), ";") >= 5 =>
        /\ SubSeq(split_fields(flushed[k].raw), 1, 5)
             = SubSeq(split_fields(opening_line(k)), 1, 5)
        /\ Return(flushed[k].entry) = RuntimeLogLine(opening_line(k))

\* a DEBUG entry with a continuation line that holds text and a semicolon
C10_Witness ==
    /\ Len(flushed) = 1
    /\ Len(flushed[1].lines) = 2
    /\ file[2] = "  continuation; text\n"
    /\ flushed[1].entry.level = 3
    /\ flushed[1].entry.message = "hello"

=============================================================================
